---- MODULE Spec2Model ----
(***************************************************************************)
(* Polling application: route handlers and server actions over the        *)
(* relational store (tables polls and votes).                              *)
(*                                                                         *)
(* Strings are modelled as sequences of one-character strings, so that     *)
(* trim, split, parseInt, the UUID pattern and the JSON encoding of the    *)
(* option list are computed character by character as the code does.       *)
(*                                                                         *)
(* The store executes each query it is sent, atomically, and may fail any  *)
(* query with an error.  It enforces the declared table constraints:       *)
(* UNIQUE(poll_id, voted_by) and the foreign key votes.poll_id ->          *)
(* polls.id ON DELETE CASCADE.  Row-level-security policies of the hosted  *)
(* store are not part of the model: every handler's query is executed as   *)
(* written.                                                                *)
(***************************************************************************)
EXTENDS Integers, Sequences, FiniteSets, TLC

(* ------------------------------------------------------------------ *)
(* Bounds of the model                                                *)
(* ------------------------------------------------------------------ *)
MaxPolls == 1
MaxVoteId == 2

(* ------------------------------------------------------------------ *)
(* Character strings                                                  *)
(* ------------------------------------------------------------------ *)
Rep(c, n) == [i \in 1..n |-> c]

IsSpace(c) == c = " "

RECURSIVE TrimStart(_)
TrimStart(s) ==
  IF s = <<>> THEN <<>>
  ELSE IF IsSpace(Head(s)) THEN TrimStart(Tail(s)) ELSE s

RECURSIVE TrimEnd(_)
TrimEnd(s) ==
  IF s = <<>> THEN <<>>
  ELSE IF IsSpace(s[Len(s)]) THEN TrimEnd(SubSeq(s, 1, Len(s) - 1)) ELSE s

Trim(s) == TrimEnd(TrimStart(s))

(* String.prototype.split(sep): "a,,b" gives <<"a", "", "b">>, "" gives <<"">>. *)
(* The text up to the first separator is a piece, the rest is split in turn.    *)
SepPositions(s, sep) == {i \in 1..Len(s) : s[i] = sep}

RECURSIVE SplitAt(_, _)
SplitAt(s, seps) ==
  IF seps = {} THEN <<s>>
  ELSE LET i == CHOOSE k \in seps : \A j \in seps : k <= j IN
       <<SubSeq(s, 1, i - 1)>>
         \o SplitAt(SubSeq(s, i + 1, Len(s)), {j - i : j \in seps \ {i}})

Split(s, sep) == SplitAt(s, SepPositions(s, sep))

RECURSIVE MapTrim(_)
MapTrim(ss) ==
  IF ss = <<>> THEN <<>> ELSE <<Trim(Head(ss))>> \o MapTrim(Tail(ss))

RECURSIVE FilterNonEmpty(_)
FilterNonEmpty(ss) ==
  IF ss = <<>> THEN <<>>
  ELSE IF Len(Head(ss)) > 0 THEN <<Head(ss)>> \o FilterNonEmpty(Tail(ss))
  ELSE FilterNonEmpty(Tail(ss))

LowerChar(c) ==
  CASE c = "A" -> "a"
    [] c = "B" -> "b"
    [] c = "C" -> "c"
    [] c = "D" -> "d"
    [] c = "E" -> "e"
    [] c = "F" -> "f"
    [] OTHER -> c

toLowerCase(s) == [i \in 1..Len(s) |-> LowerChar(s[i])]

Digits == {"0", "1", "2", "3", "4", "5", "6", "7", "8", "9"}

DigitVal(c) ==
  CASE c = "0" -> 0 [] c = "1" -> 1 [] c = "2" -> 2 [] c = "3" -> 3
    [] c = "4" -> 4 [] c = "5" -> 5 [] c = "6" -> 6 [] c = "7" -> 7
    [] c = "8" -> 8 [] c = "9" -> 9

(* parseInt(s, 10): leading white space, an optional sign, then the     *)
(* longest run of digits; NaN when there is no digit.                   *)
RECURSIVE DigitsValue(_, _, _)
DigitsValue(s, seen, acc) ==
  IF s = <<>> \/ Head(s) \notin Digits
  THEN [nan |-> ~seen, val |-> acc]
  ELSE DigitsValue(Tail(s), TRUE, acc * 10 + DigitVal(Head(s)))

parseInt(str) ==
  LET s == TrimStart(str) IN
  IF s # <<>> /\ Head(s) = "-"
  THEN LET r == DigitsValue(Tail(s), FALSE, 0) IN [nan |-> r.nan, val |-> 0 - r.val]
  ELSE IF s # <<>> /\ Head(s) = "+" THEN DigitsValue(Tail(s), FALSE, 0)
  ELSE DigitsValue(s, FALSE, 0)

(* ------------------------------------------------------------------ *)
(* isValidUUID                                                        *)
(* ------------------------------------------------------------------ *)
HexChars == Digits \cup {"a", "b", "c", "d", "e", "f", "A", "B", "C", "D", "E", "F"}

(* the positions of the pattern that take a hexadecimal digit *)
HexPositions == (1..36) \ {9, 14, 15, 19, 20, 24}

isValidUUID(id) ==
  /\ Len(id) = 36
  /\ id[9] = "-" /\ id[14] = "-" /\ id[19] = "-" /\ id[24] = "-"
  /\ id[15] \in {"1", "2", "3", "4", "5"}
  /\ id[20] \in {"8", "9", "a", "b", "A", "B"}
  /\ \A i \in HexPositions : id[i] \in HexChars

(* ------------------------------------------------------------------ *)
(* JSON.stringify / JSON.parse of an array of strings                 *)
(* ------------------------------------------------------------------ *)
(* a quote or a backslash is written with a backslash before it, any   *)
(* other character as it is; a text with neither is unchanged, another  *)
(* is escaped half by half                                              *)
RECURSIVE EscapeJSON(_)
EscapeJSON(s) ==
  IF \A i \in 1..Len(s) : s[i] \notin {"\"", "\\"} THEN s
  ELSE IF Len(s) = 1 THEN <<"\\", s[1]>>
  ELSE EscapeJSON(SubSeq(s, 1, Len(s) \div 2))
         \o EscapeJSON(SubSeq(s, Len(s) \div 2 + 1, Len(s)))

RECURSIVE JoinQuoted(_)
JoinQuoted(ss) ==
  IF ss = <<>> THEN <<>>
  ELSE <<"\"">> \o EscapeJSON(Head(ss)) \o <<"\"">>
       \o (IF Len(ss) > 1 THEN <<",">> ELSE <<>>) \o JoinQuoted(Tail(ss))

JSONstringify(ss) == <<"[">> \o JoinQuoted(ss) \o <<"]">>

(* the reader of the array text.  A quote opens or closes a string     *)
(* literal unless it is escaped, that is, written after an odd number  *)
(* of backslashes                                                      *)
RECURSIVE BackslashesBefore(_, _)
BackslashesBefore(s, i) ==
  IF i < 1 THEN 0
  ELSE IF s[i] # "\\" THEN 0
  ELSE 1 + BackslashesBefore(s, i - 1)

QuotePositions(s) ==
  {i \in 1..Len(s) : s[i] = "\"" /\ BackslashesBefore(s, i - 1) % 2 = 0}

(* the text of a literal: a backslash is dropped and the character     *)
(* after it kept                                                       *)
RECURSIVE Unescape(_)
Unescape(t) ==
  IF \A i \in 1..Len(t) : t[i] # "\\" THEN t
  ELSE LET i == CHOOSE k \in 1..Len(t) :
                   t[k] = "\\" /\ \A j \in 1..(k - 1) : t[j] # "\\" IN
       SubSeq(t, 1, i - 1) \o (IF i < Len(t) THEN <<t[i + 1]>> ELSE <<>>)
         \o Unescape(SubSeq(t, i + 2, Len(t)))

(* the literals between the first and the second quote, the third and  *)
(* the fourth, and so on; a literal that is not closed is no item      *)
RECURSIVE LiteralsAt(_, _)
LiteralsAt(s, quotes) ==
  IF Cardinality(quotes) < 2 THEN <<>>
  ELSE LET open == CHOOSE k \in quotes : \A j \in quotes : k <= j
           close == CHOOSE k \in quotes \ {open} : \A j \in quotes \ {open} : k <= j IN
       <<Unescape(SubSeq(s, open + 1, close - 1))>>
         \o LiteralsAt(s, quotes \ {open, close})

JSONparse(s) == LiteralsAt(s, QuotePositions(s))

(* ------------------------------------------------------------------ *)
(* The value of the JSONB column polls.options as a client reads it:  *)
(* a string (what the poll routes write) or an array of strings       *)
(* ------------------------------------------------------------------ *)
JSString(s) == [type |-> "string", value |-> s]
JSArray(a) == [type |-> "array", value |-> a]

(* Array.prototype.join(',') *)
RECURSIVE Join(_)
Join(ss) ==
  IF ss = <<>> THEN <<>>
  ELSE Head(ss) \o (IF Len(ss) > 1 THEN <<",">> ELSE <<>>) \o Join(Tail(ss))

(* the conversion to string that JSON.parse applies to its argument *)
toStringJS(v) == IF v.type = "string" THEN v.value ELSE Join(v.value)

(* JSON.parse(v) where an array of strings is expected: the text must   *)
(* be one that JSON.stringify writes for such an array, any other text  *)
(* of the model (words joined by commas) throws a SyntaxError           *)
JSONparseValue(v) ==
  LET text == toStringJS(v)
      parsed == JSONparse(text) IN
  IF text = JSONstringify(parsed)
  THEN [error |-> "", data |-> parsed]
  ELSE [error |-> "SyntaxError", data |-> <<>>]

(* ------------------------------------------------------------------ *)
(* Users, invocations and request inputs                              *)
(* ------------------------------------------------------------------ *)
Users == {"u1", "u2"}
NoSession == "none"
Sessions == Users \cup {NoSession}

(* the concurrently running invocations *)
Reqs == {"r1", "r2"}

DigitChar(n) ==
  CASE n = 0 -> "0" [] n = 1 -> "1" [] n = 2 -> "2" [] n = 3 -> "3"
    [] n = 4 -> "4" [] n = 5 -> "5" [] n = 6 -> "6" [] n = 7 -> "7"
    [] n = 8 -> "8" [] n = 9 -> "9"

(* the ids the store gives to its poll rows, by number *)
PollUUIDs ==
  [n \in 0..9 |->
     Rep(DigitChar(n), 8) \o <<"-">> \o Rep(DigitChar(n), 4) \o <<"-", "4">>
       \o Rep(DigitChar(n), 3) \o <<"-", "a">> \o Rep(DigitChar(n), 3)
       \o <<"-">> \o Rep(DigitChar(n), 12)]

(* the id the store gives to the n-th poll row *)
PollUUID(n) == PollUUIDs[n]

MalformedId == <<"p", "o", "l", "l", "-", "1">>

Question5 == <<"a", "b", "c", "d", "e">>
TwoOptions == <<"a", ",", "b">>
ThreeOptions == <<"a", ",", " ", "b", ",", "c">>

(* request inputs: every invocation draws its arguments from these sets. *)
(* Concurrent invocations are given well-formed requests of signed-in     *)
(* users; the rejections before the first store call are covered by the   *)
(* wider inputs of the one-request-at-a-time specification.               *)
Inputs ==
  [sessions  |-> Users,
   pollIds   |-> {PollUUID(n) : n \in 1..MaxPolls},
   options   |-> {<<"0">>, <<"2">>},
   questions |-> {Question5},
   lists     |-> {TwoOptions, ThreeOptions}]

InputsSeq ==
  [sessions  |-> Sessions,
   pollIds   |-> {PollUUID(n) : n \in 1..MaxPolls} \cup {MalformedId, <<>>},
   options   |-> {<<"0">>, <<"1">>, <<"2">>, <<"x">>, <<"-", "1">>},
   questions |-> {Question5, <<"H", "i">>},
   lists     |-> {TwoOptions, ThreeOptions, <<"a">>}]

(* ------------------------------------------------------------------ *)
(* State                                                              *)
(* ------------------------------------------------------------------ *)
VARIABLES
  polls,        \* rows of table polls
  votes,        \* rows of table votes
  nextPollId,   \* sequence of polls.id / created_at
  nextVoteId,   \* sequence of votes.id
  pc,           \* per invocation: the store call it is suspended before
  ctx,          \* per invocation: its local variables
  returned      \* what the latest step returned to its caller, if anything

vars == <<polls, votes, nextPollId, nextVoteId, pc, ctx, returned>>
store == <<polls, votes, nextPollId, nextVoteId>>

NoRow == [id |-> 0, poll_id |-> <<>>, option_index |-> -1, voted_by |-> NoSession]

NoPoll == [id |-> <<>>, question |-> <<>>, options |-> JSString(<<>>),
           created_by |-> NoSession, created_at |-> 0]

NoCtx == [op |-> "none", session |-> NoSession, pollId |-> <<>>,
          optionIndex |-> -1, existingVote |-> 0, options |-> JSString(<<>>),
          question |-> <<>>, optionsString |-> <<>>, error |-> "",
          pathname |-> <<>>, referer |-> <<>>, hasCookie |-> FALSE,
          sessionChecked |-> FALSE, voteError |-> ""]

NoResp == [kind |-> "none", status |-> 0, error |-> "", success |-> FALSE,
           created |-> FALSE, updated |-> FALSE, vote |-> NoRow, poll |-> NoPoll,
           voteCounts |-> <<>>, totalVotes |-> 0, revalidated |-> {},
           pollsWithStats |-> <<>>, redirect |-> <<>>, results |-> <<>>]

(* NextResponse.json({ error }, { status }) *)
JsonError(msg, status) ==
  [NoResp EXCEPT !.kind = "json", !.status = status, !.error = msg]

(* NextResponse.json({ success: true, ... }) *)
JsonSuccess == [NoResp EXCEPT !.kind = "json", !.status = 200, !.success = TRUE]

(* throw new Error(msg) out of a server action *)
Thrown(msg) == [NoResp EXCEPT !.kind = "throw", !.error = msg]

(* revalidatePath('/polls/manage'); revalidatePath('/polls'); return { success: true } *)
Returned ==
  [NoResp EXCEPT !.kind = "return", !.success = TRUE,
                 !.revalidated = {"/polls/manage", "/polls"}]

NoReturn == [ctx |-> NoCtx, resp |-> NoResp]

Init ==
  /\ polls = {}
  /\ votes = {}
  /\ nextPollId = 1
  /\ nextVoteId = 1
  /\ pc = [r \in Reqs |-> "idle"]
  /\ ctx = [r \in Reqs |-> NoCtx]
  /\ returned = NoReturn

(* ------------------------------------------------------------------ *)
(* The store                                                          *)
(* ------------------------------------------------------------------ *)
StoreFailure == "failure"
UniqueViolation == "23505"
ForeignKeyViolation == "23503"
NoRowsFound == "PGRST116"

(* from('polls').select(...).eq('id', id).single() *)
PollsSelectSingle(id, fail) ==
  LET rows == {p \in polls : p.id = id} IN
  IF fail THEN [error |-> StoreFailure, data |-> NoPoll]
  ELSE IF rows = {} THEN [error |-> NoRowsFound, data |-> NoPoll]
  ELSE [error |-> "", data |-> CHOOSE p \in rows : TRUE]

(* from('votes').select('id').eq('poll_id', p).eq('voted_by', u).single() *)
VotesSelectSingle(pollId, votedBy, fail) ==
  LET rows == {v \in votes : v.poll_id = pollId /\ v.voted_by = votedBy} IN
  IF fail THEN [error |-> StoreFailure, data |-> NoRow]
  ELSE IF Cardinality(rows) # 1 THEN [error |-> NoRowsFound, data |-> NoRow]
  ELSE [error |-> "", data |-> CHOOSE v \in rows : TRUE]

(* fault: the votes table declared without UNIQUE(poll_id, voted_by) *)
VotesInsertNoUnique(pollId, votedBy, optionIndex, fail) ==
  LET row == [id |-> nextVoteId, poll_id |-> pollId,
              option_index |-> optionIndex, voted_by |-> votedBy] IN
  IF fail THEN [error |-> StoreFailure, rows |-> votes, data |-> <<>>]
  ELSE IF \A p \in polls : p.id # pollId
    THEN [error |-> ForeignKeyViolation, rows |-> votes, data |-> <<>>]
  ELSE [error |-> "", rows |-> votes \cup {row}, data |-> <<row>>]

(* fault: votes.poll_id declared without REFERENCES polls(id) *)
VotesInsertNoForeignKey(pollId, votedBy, optionIndex, fail) ==
  LET row == [id |-> nextVoteId, poll_id |-> pollId,
              option_index |-> optionIndex, voted_by |-> votedBy] IN
  IF fail THEN [error |-> StoreFailure, rows |-> votes, data |-> <<>>]
  ELSE IF \E v \in votes : v.poll_id = pollId /\ v.voted_by = votedBy
    THEN [error |-> UniqueViolation, rows |-> votes, data |-> <<>>]
  ELSE [error |-> "", rows |-> votes \cup {row}, data |-> <<row>>]

(* INSERT INTO votes: poll_id REFERENCES polls(id), UNIQUE(poll_id, voted_by) *)
VotesInsert(pollId, votedBy, optionIndex, fail) ==
  LET row == [id |-> nextVoteId, poll_id |-> pollId,
              option_index |-> optionIndex, voted_by |-> votedBy] IN
  IF fail THEN [error |-> StoreFailure, rows |-> votes, data |-> <<>>]
  ELSE IF \A p \in polls : p.id # pollId
    THEN [error |-> ForeignKeyViolation, rows |-> votes, data |-> <<>>]
  ELSE IF \E v \in votes : v.poll_id = pollId /\ v.voted_by = votedBy
    THEN [error |-> UniqueViolation, rows |-> votes, data |-> <<>>]
  ELSE [error |-> "", rows |-> votes \cup {row}, data |-> <<row>>]

(* fault: the update sent without its .eq('id', ...) filter *)
VotesUpdateEveryRow(id, optionIndex, fail) ==
  LET new == {[v EXCEPT !.option_index = optionIndex] : v \in votes} IN
  IF fail THEN [error |-> StoreFailure, rows |-> votes, data |-> <<>>]
  ELSE [error |-> "", rows |-> new,
        data |-> IF new = {} THEN <<>> ELSE <<CHOOSE v \in new : v.id = id>>]

(* fault: the update sent with an empty change set *)
VotesUpdateNoChange(id, optionIndex, fail) ==
  LET hit == {v \in votes : v.id = id} IN
  IF fail THEN [error |-> StoreFailure, rows |-> votes, data |-> <<>>]
  ELSE [error |-> "", rows |-> votes,
        data |-> IF hit = {} THEN <<>> ELSE <<CHOOSE v \in hit : TRUE>>]

(* fault: the update sent without .select(), so that no row comes back *)
VotesUpdateNoData(id, optionIndex, fail) ==
  LET hit == {v \in votes : v.id = id}
      new == {[v EXCEPT !.option_index = optionIndex] : v \in hit} IN
  IF fail THEN [error |-> StoreFailure, rows |-> votes, data |-> <<>>]
  ELSE [error |-> "", rows |-> (votes \ hit) \cup new, data |-> <<>>]

(* fault: the update is applied although the store reports an error *)
VotesUpdateAppliedOnError(id, optionIndex, fail) ==
  LET hit == {v \in votes : v.id = id}
      new == {[v EXCEPT !.option_index = optionIndex] : v \in hit} IN
  IF fail THEN [error |-> StoreFailure, rows |-> (votes \ hit) \cup new, data |-> <<>>]
  ELSE [error |-> "", rows |-> (votes \ hit) \cup new,
        data |-> IF new = {} THEN <<>> ELSE <<CHOOSE v \in new : TRUE>>]

(* from('votes').update({ option_index }).eq('id', id).select() *)
VotesUpdate(id, optionIndex, fail) ==
  LET hit == {v \in votes : v.id = id}
      new == {[v EXCEPT !.option_index = optionIndex] : v \in hit} IN
  IF fail THEN [error |-> StoreFailure, rows |-> votes, data |-> <<>>]
  ELSE [error |-> "", rows |-> (votes \ hit) \cup new,
        data |-> IF new = {} THEN <<>> ELSE <<CHOOSE v \in new : TRUE>>]

(* from('votes').delete().eq('poll_id', pollId) *)
VotesDelete(pollId, fail) ==
  IF fail THEN [error |-> StoreFailure, rows |-> votes]
  ELSE [error |-> "", rows |-> {v \in votes : v.poll_id # pollId}]

(* fault: the poll delete matches no row and reports no error *)
PollsDeleteNothing(pollId, createdBy, fail) ==
  IF fail THEN [error |-> StoreFailure, polls |-> polls, votes |-> votes]
  ELSE [error |-> "", polls |-> polls, votes |-> votes]

(* from('polls').delete().eq('id', pollId).eq('created_by', user);      *)
(* votes.poll_id is declared ON DELETE CASCADE                          *)
PollsDelete(pollId, createdBy, fail) ==
  LET hit == {p \in polls : p.id = pollId /\ p.created_by = createdBy} IN
  IF fail THEN [error |-> StoreFailure, polls |-> polls, votes |-> votes]
  ELSE [error |-> "", polls |-> polls \ hit,
        votes |-> {v \in votes : \A p \in hit : v.poll_id # p.id}]

(* from('polls').update({ question, options }).eq('id', ..).eq('created_by', ..) *)
PollsUpdate(pollId, createdBy, question, options, fail) ==
  LET hit == {p \in polls : p.id = pollId /\ p.created_by = createdBy} IN
  IF fail THEN [error |-> StoreFailure, polls |-> polls]
  ELSE [error |-> "",
        polls |-> (polls \ hit)
                  \cup {[p EXCEPT !.question = question, !.options = options] : p \in hit}]

(* from('polls').insert({ question, options, created_by }).select() *)
PollsInsert(question, options, createdBy, fail) ==
  LET row == [id |-> PollUUID(nextPollId), question |-> question, options |-> options,
              created_by |-> createdBy, created_at |-> nextPollId] IN
  IF fail THEN [error |-> StoreFailure, polls |-> polls, data |-> <<>>]
  ELSE [error |-> "", polls |-> polls \cup {row}, data |-> <<row>>]

(* from('votes').select('option_index').eq('poll_id', pollId) *)
VotesSelect(pollId, fail) ==
  IF fail THEN [error |-> StoreFailure, data |-> {}]
  ELSE [error |-> "", data |-> {v \in votes : v.poll_id = pollId}]

(* ------------------------------------------------------------------ *)
(* Vote aggregation                                                   *)
(* ------------------------------------------------------------------ *)
(* fault: a vote row beyond the last option is counted for the last option *)
voteCountsClamped(options, rows) ==
  [i \in 1..Len(options) |->
     Cardinality({v \in rows : v.option_index = i - 1
                                 \/ (i = Len(options) /\ v.option_index >= i)})]

(* fault: the option index compared with the position counted from 1 *)
voteCountsFromOne(options, rows) ==
  [i \in 1..Len(options) |-> Cardinality({v \in rows : v.option_index = i})]

(* options.map((_, index) => votes.filter(v => v.option_index === index).length || 0) *)
voteCounts(options, rows) ==
  [i \in 1..Len(options) |-> Cardinality({v \in rows : v.option_index = i - 1})]

(* voteCounts.reduce((sum, count) => sum + count, 0) *)
RECURSIVE SumSeq(_)
SumSeq(s) == IF s = <<>> THEN 0 ELSE Head(s) + SumSeq(Tail(s))

(* ------------------------------------------------------------------ *)
(* Handlers.  A handler runs from one store call to the next in one    *)
(* step.  The step on which an invocation returns records its locals   *)
(* and its response in returned; any other step leaves returned empty. *)
(* ------------------------------------------------------------------ *)
Start(op, session, pollId) ==
  [NoCtx EXCEPT !.op = op, !.session = session, !.pollId = pollId]

(* the invocation returns response *)
Reply(r, c, response) ==
  /\ ctx' = [ctx EXCEPT ![r] = NoCtx]
  /\ pc' = [pc EXCEPT ![r] = "idle"]
  /\ returned' = [ctx |-> c, resp |-> response]

(* the invocation suspends before its next store call *)
Suspend(r, c, label) ==
  /\ ctx' = [ctx EXCEPT ![r] = c]
  /\ pc' = [pc EXCEPT ![r] = label]
  /\ returned' = NoReturn

(* POST /api/votes: session, form fields, poll lookup, option range *)
VoteBegin(r, session, pollId, option) ==
  LET c == Start("vote", session, pollId)
      n == parseInt(option) IN
  /\ pc[r] = "idle"
  /\ UNCHANGED store
  /\ IF session = NoSession THEN Reply(r, c, JsonError("Unauthorized", 401))
     ELSE IF pollId = <<>>
       THEN Reply(r, c, JsonError("Poll ID and option are required", 400))
     ELSE IF ~isValidUUID(pollId)
       THEN Reply(r, c, JsonError("Invalid poll ID format", 400))
     ELSE IF n.nan \/ n.val < 0
       THEN Reply(r, c, JsonError("Option must be a valid non-negative number", 400))
     ELSE \E fail \in BOOLEAN :
       LET poll == PollsSelectSingle(pollId, fail)
           options == JSONparseValue(poll.data.options) IN
       IF poll.error # ""
         THEN Reply(r, [c EXCEPT !.error = poll.error], JsonError("Poll not found", 404))
       ELSE IF options.error # ""
         THEN Reply(r, [c EXCEPT !.error = options.error],
                    JsonError("Internal server error", 500))
       ELSE IF n.val < 0 \/ n.val >= Len(options.data)
         THEN Reply(r, c, JsonError("Invalid option index", 400))
       ELSE Suspend(r, [c EXCEPT !.optionIndex = n.val], "vote_existing")

(* POST /api/votes: look up the caller's vote on the poll *)
VoteExisting(r) ==
  /\ pc[r] = "vote_existing"
  /\ UNCHANGED store
  /\ \E fail \in BOOLEAN :
       LET existingVote == VotesSelectSingle(ctx[r].pollId, ctx[r].session, fail) IN
       Suspend(r, [ctx[r] EXCEPT !.existingVote = existingVote.data.id,
                                 !.voteError = existingVote.error], "vote_write")

(* POST /api/votes: update the vote found, or insert a new one.  The  *)
(* error of the lookup is read by no line of the handler; the model    *)
(* keeps it up to this step only                                       *)
VoteWrite(r) ==
  /\ pc[r] = "vote_write"
  /\ UNCHANGED <<polls, nextPollId>>
  /\ \E fail \in BOOLEAN :
       LET c == [ctx[r] EXCEPT !.voteError = ""] IN
       IF ctx[r].existingVote # 0
       THEN LET res == VotesUpdate(ctx[r].existingVote, ctx[r].optionIndex, fail) IN
            /\ votes' = res.rows
            /\ UNCHANGED nextVoteId
            /\ IF res.error # ""
               THEN Reply(r, [c EXCEPT !.error = res.error],
                          JsonError("Failed to update vote", 500))
               ELSE Reply(r, c,
                          [JsonSuccess EXCEPT !.updated = TRUE,
                             !.vote = IF res.data = <<>> THEN NoRow ELSE res.data[1]])
       ELSE LET res == VotesInsert(ctx[r].pollId, ctx[r].session, ctx[r].optionIndex, fail) IN
            /\ res.error = "" => nextVoteId <= MaxVoteId
            /\ votes' = res.rows
            /\ nextVoteId' = IF res.error = "" THEN nextVoteId + 1 ELSE nextVoteId
            /\ IF res.error # ""
               THEN Reply(r, [c EXCEPT !.error = res.error],
                          JsonError("Failed to create vote", 500))
               ELSE Reply(r, c,
                          [JsonSuccess EXCEPT !.created = TRUE, !.vote = res.data[1]])

(* GET /api/polls/{id}/votes: session, id format, poll lookup *)
StatsBegin(r, session, pollId) ==
  LET c == Start("stats", session, pollId) IN
  /\ pc[r] = "idle"
  /\ UNCHANGED store
  /\ IF session = NoSession THEN Reply(r, c, JsonError("Unauthorized", 401))
     ELSE IF pollId = <<>> \/ ~isValidUUID(pollId)
       THEN Reply(r, c, JsonError("Invalid poll ID format", 400))
     ELSE \E fail \in BOOLEAN :
       LET poll == PollsSelectSingle(pollId, fail) IN
       IF poll.error # ""
         THEN Reply(r, [c EXCEPT !.error = poll.error], JsonError("Poll not found", 404))
       ELSE Suspend(r, [c EXCEPT !.options = poll.data.options], "stats_votes")

(* GET /api/polls/{id}/votes: fetch the votes and count them *)
StatsVotes(r) ==
  /\ pc[r] = "stats_votes"
  /\ UNCHANGED store
  /\ \E fail \in BOOLEAN :
       LET res == VotesSelect(ctx[r].pollId, fail)
           options == JSONparseValue(ctx[r].options)
           counts == voteCounts(options.data, res.data) IN
       IF res.error # ""
       THEN Reply(r, [ctx[r] EXCEPT !.error = res.error],
                  JsonError("Failed to fetch votes", 500))
       ELSE IF options.error # ""
       THEN Reply(r, [ctx[r] EXCEPT !.error = options.error],
                  JsonError("Internal server error", 500))
       ELSE Reply(r, ctx[r],
                  [JsonSuccess EXCEPT !.voteCounts = counts, !.totalVotes = SumSeq(counts)])

(* ------------------------------------------------------------------ *)
(* Poll validation (POST /api/polls)                                  *)
(* ------------------------------------------------------------------ *)
MinQuestionLen == 5
MaxQuestionLen == 200
MinOptions == 2
MaxOptions == 10
MaxOptionLen == 100

(* optionsString.split(',').map(o => o.trim()).filter(o => o.length > 0) *)
splitOptions(optionsString) == FilterNonEmpty(MapTrim(Split(optionsString, <<",">>[1])))

(* the loop over options: the first option that is too long, or that    *)
(* repeats an earlier one ignoring case, pushes one error and stops     *)
RECURSIVE optionLoop(_, _)
optionLoop(options, uniqueOptions) ==
  IF options = <<>> THEN <<>>
  ELSE IF Len(Head(options)) < 1 \/ Len(Head(options)) > MaxOptionLen
    THEN <<"Each option must be between 1 and 100 characters">>
  ELSE IF toLowerCase(Head(options)) \in uniqueOptions
    THEN <<"All options must be unique">>
  ELSE optionLoop(Tail(options), uniqueOptions \cup {toLowerCase(Head(options))})

(* fault: the number of options has no maximum *)
optionErrorsNoMaximum(options) == optionLoop(options, {})

optionErrors(options) ==
  optionLoop(options, {})
    \o (IF Len(options) > MaxOptions THEN <<"Maximum 10 options allowed">> ELSE <<>>)

(* ------------------------------------------------------------------ *)
(* Poll handlers                                                      *)
(* ------------------------------------------------------------------ *)
(* POST /api/polls *)
PollPOST(r, session, question, optionsString) ==
  LET c == [Start("create", session, <<>>) EXCEPT !.question = question,
                                                  !.optionsString = optionsString]
      options == splitOptions(optionsString) IN
  /\ pc[r] = "idle"
  /\ UNCHANGED <<votes, nextVoteId>>
  /\ IF session = NoSession
       THEN UNCHANGED <<polls, nextPollId>> /\ Reply(r, c, JsonError("Unauthorized", 401))
     ELSE IF question = <<>> \/ optionsString = <<>>
       THEN /\ UNCHANGED <<polls, nextPollId>>
            /\ Reply(r, c, JsonError("Question and options are required", 400))
     ELSE IF Len(Trim(question)) < MinQuestionLen \/ Len(Trim(question)) > MaxQuestionLen
       THEN /\ UNCHANGED <<polls, nextPollId>>
            /\ Reply(r, c, JsonError("Question must be between 5 and 200 characters", 400))
     ELSE IF Len(options) < MinOptions
       THEN /\ UNCHANGED <<polls, nextPollId>>
            /\ Reply(r, c, JsonError("Please provide at least 2 options", 400))
     ELSE IF Len(optionErrors(options)) > 0
       THEN /\ UNCHANGED <<polls, nextPollId>>
            /\ Reply(r, c, JsonError(optionErrors(options)[1], 400))
     ELSE \E fail \in BOOLEAN :
       LET res == PollsInsert(question, JSString(JSONstringify(options)), session, fail) IN
       /\ res.error = "" => nextPollId <= MaxPolls
       /\ polls' = res.polls
       /\ nextPollId' = IF res.error = "" THEN nextPollId + 1 ELSE nextPollId
       /\ IF res.error # ""
          THEN Reply(r, [c EXCEPT !.error = res.error],
                     JsonError("Failed to create poll", 500))
          ELSE Reply(r, c, [JsonSuccess EXCEPT !.poll = res.data[1]])

(* PUT /api/polls/{id} *)
PollPUT(r, session, pollId, question, options) ==
  LET c == Start("put", session, pollId)
      optionsArray == splitOptions(options) IN
  /\ pc[r] = "idle"
  /\ UNCHANGED <<votes, nextPollId, nextVoteId>>
  /\ IF session = NoSession
       THEN UNCHANGED polls /\ Reply(r, c, JsonError("Unauthorized", 401))
     ELSE IF question = <<>> \/ options = <<>>
       THEN UNCHANGED polls /\ Reply(r, c, JsonError("Missing required fields", 400))
     ELSE IF Len(optionsArray) < MinOptions
       THEN /\ UNCHANGED polls
            /\ Reply(r, c, JsonError("Please provide at least 2 valid options", 400))
     ELSE \E fail \in BOOLEAN :
       LET res == PollsUpdate(pollId, session, question, JSString(JSONstringify(optionsArray)),
                              fail) IN
       /\ polls' = res.polls
       /\ IF res.error # ""
          THEN Reply(r, [c EXCEPT !.error = res.error],
                     JsonError("Failed to update poll", 500))
          ELSE Reply(r, c, JsonSuccess)

(* GET /api/polls/{id}: no session is asked for; the id goes to the store *)
PollGET(r, pollId) ==
  LET c == Start("get", NoSession, pollId) IN
  /\ pc[r] = "idle"
  /\ UNCHANGED store
  /\ \E fail \in BOOLEAN :
       LET poll == PollsSelectSingle(pollId, fail) IN
       IF poll.error # ""
       THEN Reply(r, [c EXCEPT !.error = poll.error], JsonError("Poll not found", 404))
       ELSE Reply(r, c, [NoResp EXCEPT !.kind = "json", !.status = 200, !.poll = poll.data])

(* DELETE /api/polls/{id}: session, then delete the poll's votes *)
PollDELETEVotes(r, session, pollId) ==
  LET c == Start("delete", session, pollId) IN
  /\ pc[r] = "idle"
  /\ UNCHANGED <<polls, nextPollId, nextVoteId>>
  /\ IF session = NoSession
       THEN UNCHANGED votes /\ Reply(r, c, JsonError("Unauthorized", 401))
     ELSE \E fail \in BOOLEAN :
       LET res == VotesDelete(pollId, fail) IN
       /\ votes' = res.rows
       /\ IF res.error # ""
          THEN Reply(r, [c EXCEPT !.error = res.error],
                     JsonError("Failed to delete poll votes", 500))
          ELSE Suspend(r, c, "delete_poll")

(* DELETE /api/polls/{id}: delete the poll row of the caller *)
PollDELETEPoll(r) ==
  /\ pc[r] = "delete_poll"
  /\ UNCHANGED <<nextPollId, nextVoteId>>
  /\ \E fail \in BOOLEAN :
       LET res == PollsDelete(ctx[r].pollId, ctx[r].session, fail) IN
       /\ polls' = res.polls
       /\ votes' = res.votes
       /\ IF res.error # ""
          THEN Reply(r, [ctx[r] EXCEPT !.error = res.error],
                     JsonError("Failed to delete poll", 500))
          ELSE Reply(r, ctx[r], JsonSuccess)

(* fault: deletePoll without its session check *)
deletePollVotesNoSessionCheck(r, session, pollId) ==
  LET c == Start("deletePoll", session, pollId) IN
  /\ pc[r] = "idle"
  /\ UNCHANGED <<polls, nextPollId, nextVoteId>>
  /\ \E fail \in BOOLEAN :
       LET res == VotesDelete(pollId, fail) IN
       /\ votes' = res.rows
       /\ IF res.error # ""
          THEN Reply(r, [c EXCEPT !.error = res.error],
                     Thrown("Failed to delete poll votes"))
          ELSE Suspend(r, c, "deletePoll_poll")

(* fault: deletePoll going on to the poll delete whatever the votes delete reported *)
deletePollVotesIgnoresError(r, session, pollId) ==
  LET c == Start("deletePoll", session, pollId) IN
  /\ pc[r] = "idle"
  /\ UNCHANGED <<polls, nextPollId, nextVoteId>>
  /\ IF session = NoSession
       THEN UNCHANGED votes /\ Reply(r, c, Thrown("Unauthorized"))
     ELSE \E fail \in BOOLEAN :
       LET res == VotesDelete(pollId, fail) IN
       /\ votes' = res.rows
       /\ Suspend(r, [c EXCEPT !.error = res.error], "deletePoll_poll")

(* deletePoll(pollId): session, then delete the poll's votes *)
deletePollVotes(r, session, pollId) ==
  LET c == Start("deletePoll", session, pollId) IN
  /\ pc[r] = "idle"
  /\ UNCHANGED <<polls, nextPollId, nextVoteId>>
  /\ IF session = NoSession
       THEN UNCHANGED votes /\ Reply(r, c, Thrown("Unauthorized"))
     ELSE \E fail \in BOOLEAN :
       LET res == VotesDelete(pollId, fail) IN
       /\ votes' = res.rows
       /\ IF res.error # ""
          THEN Reply(r, [c EXCEPT !.error = res.error],
                     Thrown("Failed to delete poll votes"))
          ELSE Suspend(r, c, "deletePoll_poll")

(* fault: deletePoll ignoring the error of the poll delete *)
deletePollPollIgnoresError(r) ==
  /\ pc[r] = "deletePoll_poll"
  /\ UNCHANGED <<nextPollId, nextVoteId>>
  /\ \E fail \in BOOLEAN :
       LET res == PollsDelete(ctx[r].pollId, ctx[r].session, fail) IN
       /\ polls' = res.polls
       /\ votes' = res.votes
       /\ Reply(r, [ctx[r] EXCEPT !.error = res.error], Returned)

(* deletePoll(pollId): delete the poll row of the caller, revalidate *)
deletePollPoll(r) ==
  /\ pc[r] = "deletePoll_poll"
  /\ UNCHANGED <<nextPollId, nextVoteId>>
  /\ \E fail \in BOOLEAN :
       LET res == PollsDelete(ctx[r].pollId, ctx[r].session, fail) IN
       /\ polls' = res.polls
       /\ votes' = res.votes
       /\ IF res.error # ""
          THEN Reply(r, [ctx[r] EXCEPT !.error = res.error],
                     Thrown("Failed to delete poll"))
          ELSE Reply(r, ctx[r], Returned)

(* ------------------------------------------------------------------ *)
(* Poll statistics: getUserPollsStats, GET /api/polls/manage, the      *)
(* manage page and its cards                                           *)
(* ------------------------------------------------------------------ *)
LoginPath == <<"/", "a", "u", "t", "h", "/", "l", "o", "g", "i", "n">>

(* Math.max(...[]) is -Infinity: a value below every count *)
NegInfinity == -1

RECURSIVE MathMax(_)
MathMax(s) ==
  IF s = <<>> THEN NegInfinity
  ELSE LET m == MathMax(Tail(s)) IN IF Head(s) > m THEN Head(s) ELSE m

(* fault: the search for the value runs from the end of the array *)
RECURSIVE lastIndexOfFrom(_, _, _)
lastIndexOfFrom(s, x, i) ==
  IF i < 1 THEN -1
  ELSE IF s[i] = x THEN i - 1 ELSE lastIndexOfFrom(s, x, i - 1)

lastIndexOf(s, x) == lastIndexOfFrom(s, x, Len(s))

(* Array.prototype.indexOf: indices from 0, -1 when the value is absent *)
RECURSIVE indexOfFrom(_, _, _)
indexOfFrom(s, x, i) ==
  IF i > Len(s) THEN -1
  ELSE IF s[i] = x THEN i - 1 ELSE indexOfFrom(s, x, i + 1)

indexOf(s, x) == indexOfFrom(s, x, 1)

NoVotesText == <<"N", "o", " ", "v", "o", "t", "e", "s">>

(* poll.options[i] || 'No votes': the element of an array, the          *)
(* character of a string; undefined and the empty string are falsy      *)
optionTextOrNoVotes(v, i) ==
  IF i < 0 \/ i >= Len(v.value) THEN NoVotesText
  ELSE IF v.type = "string" THEN <<v.value[i + 1]>>
  ELSE IF v.value[i + 1] = <<>> THEN NoVotesText
  ELSE v.value[i + 1]

(* poll.options.map(...): only an array has map, on a string the call   *)
(* throws a TypeError                                                   *)
optionsMap(v) ==
  IF v.type = "array" THEN [error |-> "", data |-> v.value]
  ELSE [error |-> "TypeError", data |-> <<>>]

(* the object built for one poll: list is the array the counts are      *)
(* mapped over, rows the vote rows embedded in the poll                 *)
pollWithStats(poll, list, rows) ==
  LET counts == voteCounts(list, rows)
      mostVotedOption == indexOf(counts, MathMax(counts)) IN
  [id |-> poll.id,
   created_by |-> poll.created_by,
   created_at |-> poll.created_at,
   options |-> poll.options,
   voteCounts |-> counts,
   totalVotes |-> SumSeq(counts),
   mostVotedOption |-> mostVotedOption,
   mostVotedCount |-> MathMax(counts),
   mostVotedOptionText |-> optionTextOrNoVotes(poll.options, mostVotedOption),
   card |-> <<>>]

(* fault: the division is made whatever the total is *)
percentageUnguarded(voteCount, totalVotes) ==
  [num |-> voteCount * 100, den |-> totalVotes]

(* totalVotes > 0 ? (voteCount / totalVotes) * 100 : 0, as a fraction *)
percentage(voteCount, totalVotes) ==
  IF totalVotes > 0 THEN [num |-> voteCount * 100, den |-> totalVotes]
  ELSE [num |-> 0, den |-> 1]

(* PollResults of the vote form: one line per option, voteCounts[index] || 0 *)
PollResults(options, counts, totalVotes) ==
  [i \in 1..Len(options) |->
     LET voteCount == IF i <= Len(counts) THEN counts[i] ELSE 0 IN
     [option |-> options[i],
      voteCount |-> voteCount,
      percentage |-> percentage(voteCount, totalVotes)]]

(* PollManagementCard: one line per option of JSON.parse(poll.options) *)
PollManagementCard(poll) ==
  LET options == JSONparseValue(poll.options).data IN
  [i \in 1..Len(options) |->
     LET voteCount == IF i <= Len(poll.voteCounts) THEN poll.voteCounts[i] ELSE 0 IN
     [option |-> options[i],
      voteCount |-> voteCount,
      percentage |-> percentage(voteCount, poll.totalVotes),
      isMostVoted |-> (i - 1 = poll.mostVotedOption /\ voteCount > 0)]]

RECURSIVE OrderNewestFirst(_)
OrderNewestFirst(P) ==
  IF P = {} THEN <<>>
  ELSE LET p == CHOOSE q \in P : \A o \in P : o.created_at <= q.created_at IN
       <<p>> \o OrderNewestFirst(P \ {p})

(* from('polls').select('*, votes(option_index)').eq('created_by', user)  *)
(*   .order('created_at', { ascending: false })                           *)
PollsSelectWithVotes(createdBy, fail) ==
  IF fail THEN [error |-> StoreFailure, data |-> <<>>]
  ELSE [error |-> "", data |-> OrderNewestFirst({p \in polls : p.created_by = createdBy})]

(* the vote rows embedded in a selected poll *)
EmbeddedVotes(poll) == {v \in votes : v.poll_id = poll.id}

(* polls.map(poll => ...) over arrays: one throw ends the whole map *)
StatsOfArrays(data) ==
  IF \E i \in 1..Len(data) : optionsMap(data[i].options).error # ""
  THEN [error |-> "TypeError", data |-> <<>>]
  ELSE [error |-> "",
        data |-> [i \in 1..Len(data) |->
                    pollWithStats(data[i], optionsMap(data[i].options).data,
                                  EmbeddedVotes(data[i]))]]

(* userPolls.map(poll => ...) of the manage page, over JSON.parse(poll.options), *)
(* each object then rendered by a PollManagementCard                             *)
StatsOfStrings(data) ==
  IF \E i \in 1..Len(data) : JSONparseValue(data[i].options).error # ""
  THEN [error |-> "SyntaxError", data |-> <<>>]
  ELSE [error |-> "",
        data |-> [i \in 1..Len(data) |->
                    LET p == pollWithStats(data[i], JSONparseValue(data[i].options).data,
                                           EmbeddedVotes(data[i])) IN
                    [p EXCEPT !.card = PollManagementCard(p)]]]

(* getUserPollsStats() *)
getUserPollsStats(r, session) ==
  LET c == Start("getUserPollsStats", session, <<>>) IN
  /\ pc[r] = "idle"
  /\ UNCHANGED store
  /\ IF session = NoSession THEN Reply(r, c, Thrown("Unauthorized"))
     ELSE \E fail \in BOOLEAN :
       LET res == PollsSelectWithVotes(session, fail)
           pollsWithStats == StatsOfArrays(res.data) IN
       IF res.error # "" THEN Reply(r, [c EXCEPT !.error = res.error], Thrown(res.error))
       ELSE IF pollsWithStats.error # ""
         THEN Reply(r, [c EXCEPT !.error = pollsWithStats.error],
                    Thrown(pollsWithStats.error))
       ELSE Reply(r, c, [NoResp EXCEPT !.kind = "return",
                                       !.pollsWithStats = pollsWithStats.data])

(* GET /api/polls/manage *)
ManageGET(r, session) ==
  LET c == Start("manage", session, <<>>) IN
  /\ pc[r] = "idle"
  /\ UNCHANGED store
  /\ IF session = NoSession THEN Reply(r, c, JsonError("Unauthorized", 401))
     ELSE \E fail \in BOOLEAN :
       LET res == PollsSelectWithVotes(session, fail)
           pollsWithStats == StatsOfArrays(res.data) IN
       IF res.error # ""
         THEN Reply(r, [c EXCEPT !.error = res.error],
                    JsonError("Failed to retrieve polls", 500))
       ELSE IF pollsWithStats.error # ""
         THEN Reply(r, [c EXCEPT !.error = pollsWithStats.error],
                    JsonError("An unexpected error occurred", 500))
       ELSE Reply(r, c, [NoResp EXCEPT !.kind = "json", !.status = 200,
                                       !.pollsWithStats = pollsWithStats.data])

(* the page /polls/manage: the error of its polls query is not looked at, *)
(* a failed query renders as no polls                                     *)
PollManagement(r, session) ==
  LET c == Start("page", session, <<>>) IN
  /\ pc[r] = "idle"
  /\ UNCHANGED store
  /\ IF session = NoSession
       THEN Reply(r, c, [NoResp EXCEPT !.kind = "redirect", !.redirect = LoginPath])
     ELSE \E fail \in BOOLEAN :
       LET userPolls == PollsSelectWithVotes(session, fail)
           pollsWithStats == StatsOfStrings(userPolls.data) IN
       IF pollsWithStats.error # ""
         THEN Reply(r, [c EXCEPT !.error = pollsWithStats.error],
                    Thrown(pollsWithStats.error))
       ELSE Reply(r, [c EXCEPT !.error = userPolls.error],
                  [NoResp EXCEPT !.kind = "render",
                                 !.pollsWithStats = pollsWithStats.data])

(* the page /polls/{id}: session, poll lookup; the error of the lookup is *)
(* not looked at, a poll that was not returned renders as not found       *)
PollPage(r, session, pollId) ==
  LET c == Start("poll", session, pollId) IN
  /\ pc[r] = "idle"
  /\ UNCHANGED store
  /\ IF session = NoSession
       THEN Reply(r, c, [NoResp EXCEPT !.kind = "redirect", !.redirect = LoginPath])
     ELSE \E fail \in BOOLEAN :
       LET poll == PollsSelectSingle(pollId, fail) IN
       IF poll.error # ""
         THEN Reply(r, [c EXCEPT !.error = poll.error],
                    [NoResp EXCEPT !.kind = "render", !.error = "Poll Not Found"])
       ELSE Suspend(r, [c EXCEPT !.options = poll.data.options], "poll_votes")

(* the page /polls/{id}: fetch the votes (a failed query counts as no    *)
(* votes), count them over poll.options.map and render one line per      *)
(* option                                                                *)
PollPageVotes(r) ==
  /\ pc[r] = "poll_votes"
  /\ UNCHANGED store
  /\ \E fail \in BOOLEAN :
       LET res == VotesSelect(ctx[r].pollId, fail)
           options == optionsMap(ctx[r].options)
           counts == voteCounts(options.data, res.data)
           totalVotes == SumSeq(counts) IN
       IF options.error # ""
       THEN Reply(r, [ctx[r] EXCEPT !.error = options.error], Thrown(options.error))
       ELSE Reply(r, [ctx[r] EXCEPT !.error = res.error],
                  [NoResp EXCEPT !.kind = "render",
                     !.voteCounts = counts, !.totalVotes = totalVotes,
                     !.results = [i \in 1..Len(options.data) |->
                                    [option |-> options.data[i],
                                     voteCount |-> counts[i],
                                     percentage |-> percentage(counts[i], totalVotes)]]])

(* the vote form of the poll page, submitted for the option at index.  *)
(* Each of its queries is built with session.user.id (lines 103, 112,  *)
(* 120); the session is the user object getSession returns             *)
(* (auth.ts:165), which has an id and no field user, so building the    *)
(* first query throws before a request is sent to the store             *)
PollVote(r, session, pollId, index) ==
  LET c == [Start("pollVote", session, pollId) EXCEPT !.optionIndex = index] IN
  /\ pc[r] = "idle"
  /\ UNCHANGED store
  /\ Reply(r, [c EXCEPT !.error = "TypeError"], Thrown("TypeError"))

(* ------------------------------------------------------------------ *)
(* Middleware                                                         *)
(* ------------------------------------------------------------------ *)
(* String.prototype.includes *)
includes(s, t) == \E i \in 1..(Len(s) - Len(t) + 1) : SubSeq(s, i, i + Len(t) - 1) = t

(* String.prototype.startsWith *)
startsWith(s, t) == Len(s) >= Len(t) /\ SubSeq(s, 1, Len(t)) = t

PollsPath == <<"/", "p", "o", "l", "l", "s">>
NextDir == <<"/", "_", "n", "e", "x", "t">>
ApiDir == <<"/", "a", "p", "i", "/">>
FaviconFile == <<"/", "f", "a", "v", "i", "c", "o", "n", ".", "i", "c", "o">>
ViteDir == <<"/", "@", "v", "i", "t", "e">>

(* NextResponse.next() *)
NextResponseNext == [NoResp EXCEPT !.kind = "next"]

(* NextResponse.redirect(new URL(path, req.url)) *)
NextResponseRedirect(path) == [NoResp EXCEPT !.kind = "redirect", !.redirect = path]

(* middleware(req).  pathname, referer: of the request; hasCookie: the    *)
(* request carries a cookie auth_token, whatever it holds; session: the   *)
(* user of the session supabase.auth.getSession() finds, if any; fail:    *)
(* that call throws                                                       *)
middleware(r, pathname, referer, hasCookie, session, fail) ==
  LET c == [NoCtx EXCEPT !.op = "middleware", !.session = session,
                         !.pathname = pathname, !.referer = referer,
                         !.hasCookie = hasCookie] IN
  /\ pc[r] = "idle"
  /\ UNCHANGED store
  /\ IF \/ includes(pathname, NextDir) \/ includes(pathname, ApiDir)
        \/ includes(pathname, FaviconFile) \/ includes(pathname, ViteDir)
       THEN Reply(r, c, NextResponseNext)
     ELSE IF includes(referer, LoginPath) /\ pathname = LoginPath
       THEN Reply(r, c, NextResponseNext)
     ELSE IF pathname = LoginPath /\ hasCookie /\ fail
       THEN Reply(r, [c EXCEPT !.sessionChecked = TRUE, !.error = StoreFailure],
                  NextResponseNext)
     ELSE IF pathname = LoginPath /\ hasCookie /\ session # NoSession
       THEN Reply(r, [c EXCEPT !.sessionChecked = TRUE], NextResponseRedirect(PollsPath))
     ELSE IF startsWith(pathname, PollsPath) /\ ~hasCookie
       THEN Reply(r, [c EXCEPT !.sessionChecked = (pathname = LoginPath /\ hasCookie)],
                  NextResponseRedirect(LoginPath))
     ELSE Reply(r, [c EXCEPT !.sessionChecked = (pathname = LoginPath /\ hasCookie)],
                NextResponseNext)

(* ------------------------------------------------------------------ *)
(* Specifications                                                     *)
(* ------------------------------------------------------------------ *)
(* an invocation arrives and runs up to its first store call *)
Begin(r, in) ==
  \/ \E s \in in.sessions, p \in in.pollIds, o \in in.options : VoteBegin(r, s, p, o)
  \/ \E s \in in.sessions, p \in in.pollIds : StatsBegin(r, s, p)
  \/ \E s \in in.sessions, q \in in.questions, o \in in.lists : PollPOST(r, s, q, o)
  \/ \E s \in in.sessions, p \in in.pollIds, q \in in.questions, o \in in.lists :
       PollPUT(r, s, p, q, o)
  \/ \E s \in in.sessions, p \in in.pollIds : PollDELETEVotes(r, s, p)
  \/ \E s \in in.sessions, p \in in.pollIds : deletePollVotes(r, s, p)

(* a suspended invocation performs its next store call *)
Continue(r) ==
  \/ VoteExisting(r)
  \/ VoteWrite(r)
  \/ StatsVotes(r)
  \/ PollDELETEPoll(r)
  \/ deletePollPoll(r)

(* invocations run concurrently, interleaved at their store calls *)
Next == \E r \in Reqs : Begin(r, Inputs) \/ Continue(r)

Spec == Init /\ [][Next]_vars

(* requests handled one at a time: none arrives while another is suspended *)
SeqReq == "r1"

NextSeq ==
  \/ Begin(SeqReq, InputsSeq)
  \/ Continue(SeqReq)
  \/ \E p \in InputsSeq.pollIds : PollGET(SeqReq, p)

SpecSeq == Init /\ [][NextSeq]_vars

(* ------------------------------------------------------------------ *)
(* The statistics over every poll and vote set: one poll of u1, its    *)
(* options held as an array or as the string the poll routes write,    *)
(* and at most one vote per voter, for an option index that may lie    *)
(* beyond the option list (the list may have been edited since).  The  *)
(* statistics read option_index only, so the voters are numbered in    *)
(* the order of the index they voted for, those without a vote first.  *)
(* ------------------------------------------------------------------ *)
MaxStatsVotes == 5

StatsVoter(i) ==
  CASE i = 1 -> "u1" [] i = 2 -> "u2" [] i = 3 -> "u3" [] i = 4 -> "u4"
    [] i = 5 -> "u5" [] i = 6 -> "u6" [] i = 7 -> "u7" [] OTHER -> "u8"

YesNo == << <<"Y", "e", "s">>, <<"N", "o">> >>
OptionABC ==
  << <<"O", "p", "t", "i", "o", "n", " ", "A">>,
     <<"O", "p", "t", "i", "o", "n", " ", "B">>,
     <<"O", "p", "t", "i", "o", "n", " ", "C">> >>

StatsOptions ==
  {JSArray(YesNo), JSArray(OptionABC),
   JSString(JSONstringify(YesNo)), JSString(JSONstringify(OptionABC))}

StatsIndexes == 0..3
NoVote == -1

InitStats ==
  /\ \E o \in StatsOptions :
       polls = {[id |-> PollUUID(1), question |-> Question5, options |-> o,
                 created_by |-> "u1", created_at |-> 1]}
  /\ \E f \in [1..MaxStatsVotes -> StatsIndexes \cup {NoVote}] :
       /\ \A i \in 1..(MaxStatsVotes - 1) : f[i] <= f[i + 1]
       /\ votes = {[id |-> i, poll_id |-> PollUUID(1), option_index |-> f[i],
                    voted_by |-> StatsVoter(i)] :
                      i \in {j \in 1..MaxStatsVotes : f[j] # NoVote}}
  /\ nextPollId = 2
  /\ nextVoteId = MaxStatsVotes + 1
  /\ pc = [r \in Reqs |-> "idle"]
  /\ ctx = [r \in Reqs |-> NoCtx]
  /\ returned = NoReturn

NextStats ==
  \/ \E s \in Sessions : getUserPollsStats(SeqReq, s)
  \/ \E s \in Sessions : ManageGET(SeqReq, s)
  \/ \E s \in Sessions : PollManagement(SeqReq, s)
  \/ \E s \in Sessions : StatsBegin(SeqReq, s, PollUUID(1))
  \/ StatsVotes(SeqReq)
  \/ \E s \in Sessions : PollPage(SeqReq, s, PollUUID(1))
  \/ PollPageVotes(SeqReq)

SpecStats == InitStats /\ [][NextStats]_vars

(* ------------------------------------------------------------------ *)
(* Poll creation and editing, one request at a time, over questions    *)
(* and option strings on both sides of every limit of the validation.  *)
(* ------------------------------------------------------------------ *)
ElevenLetters == <<"a", "b", "c", "d", "e", "f", "g", "h", "i", "j", "k">>

(* the first n letters, one option each *)
Letters(n) == [i \in 1..n |-> <<ElevenLetters[i]>>]

TenOptions == Join(Letters(10))
ElevenOptions == Join(Letters(11))
(* a, A, c, ..., k: eleven options, the second repeating the first *)
ElevenWithDuplicate == Join([Letters(11) EXCEPT ![2] = <<"A">>])
DuplicateOptions == <<"a", ",", "A">>
SpacedOptions == <<" ", "a", " ", ",", " ", ",", "b", " ">>
OptionOf100 == Join(<<Rep("x", 100), <<"b">>>>)
OptionOf101 == Join(<<Rep("x", 101), <<"b">>>>)
(* a, A, x...x: the repeated option comes before the one that is too long *)
DuplicateThenLong == Join(<< <<"a">>, <<"A">>, Rep("x", 101) >>)

QuestionHi == <<"H", "i">>
Question4Padded == <<" ", " ", "a", "b", "c", "d", " ", " ">>
Question200 == Rep("q", 200)
Question201 == Rep("q", 201)

InputsPolls ==
  [sessions  |-> {"u1", NoSession},
   pollIds   |-> {PollUUID(n) : n \in 1..MaxPolls},
   questions |-> {Question5, QuestionHi, Question4Padded, Question200, Question201},
   lists     |-> {TwoOptions, <<"a">>, DuplicateOptions, SpacedOptions, TenOptions,
                  ElevenOptions, ElevenWithDuplicate, OptionOf100, OptionOf101,
                  DuplicateThenLong},
   putQuestions |-> {Question5, QuestionHi},
   putLists  |-> {TwoOptions, <<"a">>, DuplicateOptions}]

NextPolls ==
  \/ \E s \in InputsPolls.sessions, q \in InputsPolls.questions, o \in InputsPolls.lists :
       PollPOST(SeqReq, s, q, o)
  \/ \E s \in InputsPolls.sessions, p \in InputsPolls.pollIds,
        q \in InputsPolls.putQuestions, o \in InputsPolls.putLists :
       PollPUT(SeqReq, s, p, q, o)

SpecPolls == Init /\ [][NextPolls]_vars

(* ------------------------------------------------------------------ *)
(* Requests passing the middleware, one at a time: pages, API routes   *)
(* and static assets, with and without the cookie and the session.     *)
(* ------------------------------------------------------------------ *)
Pathnames ==
  {PollsPath, <<"/", "p", "o", "l", "l", "s", "/", "m", "a", "n", "a", "g", "e">>, LoginPath, <<"/", "a", "u", "t", "h", "/", "s", "i", "g", "n", "u", "p">>, <<"/", "a", "p", "i", "/", "p", "o", "l", "l", "s">>, <<"/", "_", "n", "e", "x", "t", "/", "s", "t", "a", "t", "i", "c", "/", "a", ".", "j", "s">>,
   FaviconFile, <<"/", "p", "o", "l", "l", "s", "/", "a", "p", "i", "/", "x">>}

Referers == {<<>>, <<"h", "t", "t", "p", ":", "/", "/", "h", "/", "a", "u", "t", "h", "/", "l", "o", "g", "i", "n">>, <<"h", "t", "t", "p", ":", "/", "/", "h", "/", "p", "o", "l", "l", "s">>}

NextMiddleware ==
  \E p \in Pathnames, ref \in Referers, hasCookie \in BOOLEAN, s \in Sessions,
     fail \in BOOLEAN :
    middleware(SeqReq, p, ref, hasCookie, s, fail)

SpecMiddleware == Init /\ [][NextMiddleware]_vars

(* rows of a table by their keys *)
VotesOfPoll(V, pollId) == {v \in V : v.poll_id = pollId}
VotesOfUser(V, pollId, user) == {v \in V : v.poll_id = pollId /\ v.voted_by = user}
PollsWithId(P, pollId) == {p \in P : p.id = pollId}

(* ------------------------------------------------------------------ *)
(* A stats read beside the owner's delete: one poll of u1 with a vote  *)
(* of every user, all for the first option; either invocation reads    *)
(* the statistics or, while the poll has votes, starts the owner's     *)
(* delete (route or server action).  Nothing writes a vote, so the     *)
(* votes a delete removes are the ones the poll starts with.           *)
(* ------------------------------------------------------------------ *)
RacePoll ==
  [id |-> PollUUID(1), question |-> Question5,
   options |-> JSString(JSONstringify(YesNo)), created_by |-> "u1", created_at |-> 1]

RaceVotes ==
  {[id |-> 1, poll_id |-> RacePoll.id, option_index |-> 0, voted_by |-> "u1"],
   [id |-> 2, poll_id |-> RacePoll.id, option_index |-> 0, voted_by |-> "u2"]}

InitRace ==
  /\ polls = {RacePoll}
  /\ votes = RaceVotes
  /\ nextPollId = 2
  /\ nextVoteId = Cardinality(RaceVotes) + 1
  /\ pc = [r \in Reqs |-> "idle"]
  /\ ctx = [r \in Reqs |-> NoCtx]
  /\ returned = NoReturn

NextRace ==
  \E r \in Reqs :
    \/ \E s \in Users : StatsBegin(r, s, RacePoll.id)
    \/ StatsVotes(r)
    \/ VotesOfPoll(votes, RacePoll.id) # {}
         /\ PollDELETEVotes(r, RacePoll.created_by, RacePoll.id)
    \/ PollDELETEPoll(r)
    \/ VotesOfPoll(votes, RacePoll.id) # {}
         /\ deletePollVotes(r, RacePoll.created_by, RacePoll.id)
    \/ deletePollPoll(r)

SpecRace == InitRace /\ [][NextRace]_vars

(* ------------------------------------------------------------------ *)
(* Voting again: one poll of u1 with three options, stored as the poll *)
(* routes write them or as an array; u1 has a vote and u2 may have     *)
(* one.  One invocation at a time submits a vote through the route or, *)
(* where the page renders its forms (options read as an array),        *)
(* through the form of an option, or reads the statistics.             *)
(* ------------------------------------------------------------------ *)
RevotePoll(options) ==
  [id |-> PollUUID(1), question |-> Question5, options |-> options,
   created_by |-> "u1", created_at |-> 1]

RevoteIndexes == {i - 1 : i \in 1..Len(OptionABC)}

InitRevote ==
  /\ \E o \in {JSArray(OptionABC), JSString(JSONstringify(OptionABC))} :
       polls = {RevotePoll(o)}
  /\ \E a \in RevoteIndexes, b \in RevoteIndexes \cup {NoVote} :
       votes = {[id |-> 1, poll_id |-> PollUUID(1), option_index |-> a, voted_by |-> "u1"]}
               \cup (IF b = NoVote THEN {}
                     ELSE {[id |-> 2, poll_id |-> PollUUID(1), option_index |-> b,
                            voted_by |-> "u2"]})
  /\ nextPollId = 2
  /\ nextVoteId = Cardinality(votes) + 1
  /\ pc = [r \in Reqs |-> "idle"]
  /\ ctx = [r \in Reqs |-> NoCtx]
  /\ returned = NoReturn

NextRevote ==
  \/ \E s \in Users, i \in RevoteIndexes : VoteBegin(SeqReq, s, PollUUID(1), <<DigitChar(i)>>)
  \/ VoteExisting(SeqReq)
  \/ VoteWrite(SeqReq)
  \/ \E s \in Users, i \in RevoteIndexes :
       /\ \E p \in polls : p.id = PollUUID(1) /\ p.options.type = "array"
       /\ PollVote(SeqReq, s, PollUUID(1), i)
  \/ \E s \in Users : StatsBegin(SeqReq, s, PollUUID(1))
  \/ StatsVotes(SeqReq)

SpecRevote == InitRevote /\ [][NextRevote]_vars

(* ------------------------------------------------------------------ *)
(* Vocabulary of the properties                                       *)
(* ------------------------------------------------------------------ *)

(* the option list a stats read of pollId parses; empty when there is no such poll *)
OptionsOf(P, pollId) ==
  IF PollsWithId(P, pollId) = {} THEN <<>>
  ELSE JSONparseValue((CHOOSE p \in PollsWithId(P, pollId) : TRUE).options).data

(* the locals of the invocation that took this step: of the one that     *)
(* returned, else of the one that suspended                              *)
Actor ==
  IF returned'.ctx.op # "none" THEN returned'.ctx
  ELSE IF \E r \in Reqs : pc'[r] # pc[r]
    THEN ctx'[CHOOSE r \in Reqs : pc'[r] # pc[r]]
  ELSE NoCtx

(* invocation r performs its vote write on this step *)
VoteWriteStep(r) == pc[r] = "vote_write" /\ pc'[r] = "idle"

WriteOps == {"vote", "create", "put", "delete", "deletePoll"}

Unauthorized(response) ==
  response = JsonError("Unauthorized", 401) \/ response = Thrown("Unauthorized")

(* ------------------------------------------------------------------ *)
(* C1: in every reachable state, whatever the interleaving of vote     *)
(* submissions, the votes table holds at most one row per              *)
(* (poll_id, voted_by) pair.                                           *)
(* ------------------------------------------------------------------ *)
C1_OneRowPerPollAndUser ==
  \A v \in votes, w \in votes :
    (v.poll_id = w.poll_id /\ v.voted_by = w.voted_by) => v = w

(* a submission that found no vote lost the insert to a concurrent one *)
C1_Witness ==
  /\ returned.ctx.op = "vote"
  /\ returned.ctx.error = UniqueViolation
  /\ Cardinality(VotesOfUser(votes, returned.ctx.pollId, returned.ctx.session)) = 1

(* ------------------------------------------------------------------ *)
(* C2: a vote insert that collides with the uniqueness constraint      *)
(* falls back to updating the existing row and returns success; it is  *)
(* not answered with a 500.                                            *)
(* ------------------------------------------------------------------ *)
C2_CollisionFallsBackToUpdate ==
  [][\A r \in Reqs :
       (VoteWriteStep(r) /\ returned'.ctx.error = UniqueViolation)
         => /\ returned'.resp.success
            /\ returned'.resp.status # 500
            /\ \A v \in VotesOfUser(votes', ctx[r].pollId, ctx[r].session) :
                 v.option_index = ctx[r].optionIndex]_vars

(* ------------------------------------------------------------------ *)
(* C3: a poll delete or edit by a signed-in user who is not the poll's *)
(* creator leaves the poll row and every vote row of the poll as they  *)
(* were.                                                               *)
(* ------------------------------------------------------------------ *)
C3_NonOwnerChangesNothing ==
  [][\A p \in polls :
       (/\ Actor.op \in {"put", "delete", "deletePoll"}
        /\ Actor.pollId = p.id
        /\ Actor.session \notin {NoSession, p.created_by})
         => /\ p \in polls'
            /\ VotesOfPoll(votes', p.id) = VotesOfPoll(votes, p.id)]_vars

(* ------------------------------------------------------------------ *)
(* C4: every write operation (vote submission, poll create, edit,      *)
(* delete) invoked without a session answers Unauthorized and changes  *)
(* nothing in the store.                                               *)
(* ------------------------------------------------------------------ *)
C4_NoSessionNoWrite ==
  [][(Actor.op \in WriteOps /\ Actor.session = NoSession)
       => /\ Unauthorized(returned'.resp)
          /\ polls' = polls
          /\ votes' = votes]_vars

(* deletePoll without a session was refused while the poll had votes *)
C4_Witness ==
  /\ returned.ctx.op = "deletePoll"
  /\ returned.ctx.session = NoSession
  /\ returned.resp = Thrown("Unauthorized")
  /\ PollsWithId(polls, returned.ctx.pollId) # {}
  /\ VotesOfPoll(votes, returned.ctx.pollId) # {}

(* ------------------------------------------------------------------ *)
(* C5: submitting again the option the user's vote row already holds   *)
(* leaves exactly one row for the (poll, user) pair, holding that      *)
(* option, and changes no tally of the poll.                           *)
(* ------------------------------------------------------------------ *)
ResubmitsStoredOption(r) ==
  \E v \in VotesOfUser(votes, ctx[r].pollId, ctx[r].session) :
    v.option_index = ctx[r].optionIndex

C5_SameVoteTwice ==
  [][\A r \in Reqs :
       (VoteWriteStep(r) /\ ResubmitsStoredOption(r))
         => /\ Cardinality(VotesOfUser(votes', ctx[r].pollId, ctx[r].session)) = 1
            /\ \A v \in VotesOfUser(votes', ctx[r].pollId, ctx[r].session) :
                 v.option_index = ctx[r].optionIndex
            /\ voteCounts(OptionsOf(polls', ctx[r].pollId), VotesOfPoll(votes', ctx[r].pollId))
                 = voteCounts(OptionsOf(polls, ctx[r].pollId), VotesOfPoll(votes, ctx[r].pollId))]_vars

(* the second submission found the vote of the first, which holds the   *)
(* option submitted again, next to another user's vote for another one  *)
C5_Witness ==
  \E r \in Reqs :
    /\ pc[r] = "vote_write"
    /\ \E v \in votes : v.id = ctx[r].existingVote /\ v.option_index = ctx[r].optionIndex
    /\ \E w \in VotesOfPoll(votes, ctx[r].pollId) : w.option_index # ctx[r].optionIndex

(* ------------------------------------------------------------------ *)
(* C6: after a user's vote is changed from option a to option b, the   *)
(* recomputed tallies count that user exactly once, under b only; the  *)
(* only voter going from 1 to 0 gives <<1, 0, ...>>.                   *)
(* ------------------------------------------------------------------ *)
OnlyUnder(options, b) == [i \in 1..Len(options) |-> IF i - 1 = b THEN 1 ELSE 0]

C6_ChangedVoteCountedOnce ==
  [][\A r \in Reqs :
       (VoteWriteStep(r) /\ returned'.resp.success /\ returned'.resp.updated)
         => LET p == ctx[r].pollId
                mine == VotesOfUser(votes', p, ctx[r].session) IN
            /\ ctx[r].optionIndex < Len(OptionsOf(polls', p))
            /\ voteCounts(OptionsOf(polls', p), mine)
                 = OnlyUnder(OptionsOf(polls', p), ctx[r].optionIndex)
            /\ VotesOfPoll(votes', p) = mine
                 => voteCounts(OptionsOf(polls', p), VotesOfPoll(votes', p))
                      = OnlyUnder(OptionsOf(polls', p), ctx[r].optionIndex)]_vars

(* the only voter of the poll, whose vote is for option 1, is about to  *)
(* have it rewritten to option 0                                        *)
C6_Witness ==
  \E r \in Reqs :
    /\ pc[r] = "vote_write"
    /\ ctx[r].optionIndex = 0
    /\ \E v \in votes :
         /\ v.id = ctx[r].existingVote
         /\ v.option_index = 1
         /\ VotesOfPoll(votes, ctx[r].pollId) = {v}

(* ------------------------------------------------------------------ *)
(* C7: a successful vote submission returns the tag created when the   *)
(* (poll, user) pair had no vote row, which is the pair's first        *)
(* submission, and the tag updated on every later one, each with the   *)
(* resulting vote row.                                                 *)
(* ------------------------------------------------------------------ *)
C7_CreatedThenUpdated ==
  [][\A r \in Reqs :
       (VoteWriteStep(r) /\ returned'.resp.success)
         => LET had == VotesOfUser(votes, ctx[r].pollId, ctx[r].session) # {} IN
            /\ returned'.resp.created <=> ~had
            /\ returned'.resp.updated <=> had
            /\ returned'.resp.vote \in votes'
            /\ returned'.resp.vote.poll_id = ctx[r].pollId
            /\ returned'.resp.vote.voted_by = ctx[r].session
            /\ returned'.resp.vote.option_index = ctx[r].optionIndex]_vars

(* a later submission returned updated with the row it rewrote *)
C7_Witness ==
  /\ returned.ctx.op = "vote"
  /\ returned.resp.updated
  /\ returned.resp.vote \in votes
  /\ returned.resp.vote.option_index = returned.ctx.optionIndex

(* ------------------------------------------------------------------ *)
(* C8: every vote row written by a vote submission has option_index    *)
(* within [0, len(options)) of the poll's option list as stored at the *)
(* moment of the write.                                                *)
(* ------------------------------------------------------------------ *)
C8_WrittenOptionInRange ==
  [][\A r \in Reqs :
       VoteWriteStep(r)
         => \A v \in votes' \ votes :
              /\ 0 <= v.option_index
              /\ v.option_index < Len(OptionsOf(polls', v.poll_id))]_vars

(* ------------------------------------------------------------------ *)
(* C9: once the owner's poll delete has returned success, the poll row *)
(* and every vote row with its id are gone and stay gone, and a vote-  *)
(* stats read that starts afterwards answers 404 Poll not found.       *)
(* ------------------------------------------------------------------ *)
Gone(P, V, pollId) == PollsWithId(P, pollId) = {} /\ VotesOfPoll(V, pollId) = {}

CreatedIds == {PollUUID(n) : n \in 1..(nextPollId - 1)}

OwnerDeleteSucceeds(r) ==
  /\ pc[r] \in {"delete_poll", "deletePoll_poll"}
  /\ pc'[r] = "idle"
  /\ returned'.resp.success
  /\ \E p \in polls : p.id = ctx[r].pollId /\ p.created_by = ctx[r].session

C9_DeletedPollIsNotFound ==
  [][/\ \A r \in Reqs : OwnerDeleteSucceeds(r) => Gone(polls', votes', ctx[r].pollId)
     /\ \A id \in CreatedIds :
          Gone(polls, votes, id)
            => /\ Gone(polls', votes', id)
               /\ (Actor.op = "stats" /\ Actor.pollId = id /\ \A r \in Reqs : pc'[r] = pc[r])
                    => returned'.resp = JsonError("Poll not found", 404)]_vars

(* a stats read of a poll that had votes and was deleted answered 404 *)
C9_Witness ==
  /\ returned.ctx.op = "stats"
  /\ returned.ctx.pollId \in CreatedIds
  /\ Gone(polls, votes, returned.ctx.pollId)
  /\ nextVoteId > 1
  /\ returned.resp = JsonError("Poll not found", 404)

(* ------------------------------------------------------------------ *)
(* C10: when the poll's votes were deleted and the deletion of the     *)
(* poll row then fails, deletePoll throws 'Failed to delete poll': it  *)
(* does not return success and revalidates no page.                    *)
(* ------------------------------------------------------------------ *)
C10_PartialDeleteIsThrown ==
  [][\A r \in Reqs :
       (/\ pc[r] = "deletePoll_poll"
        /\ pc'[r] = "idle"
        /\ \E p \in polls' : p.id = ctx[r].pollId /\ p.created_by = ctx[r].session)
         => /\ returned'.resp = Thrown("Failed to delete poll")
            /\ ~returned'.resp.success
            /\ returned'.resp.revalidated = {}]_vars

(* the votes of the caller's poll are deleted, the poll row is not *)
C10_Witness ==
  /\ returned.ctx.op = "deletePoll"
  /\ returned.ctx.error = StoreFailure
  /\ returned.resp.error = "Failed to delete poll"
  /\ \E p \in polls : p.id = returned.ctx.pollId /\ p.created_by = returned.ctx.session
  /\ VotesOfPoll(votes, returned.ctx.pollId) = {}
  /\ nextVoteId > 1

(* ------------------------------------------------------------------ *)
(* C11: when the deletion of the poll's votes fails, deletePoll throws *)
(* 'Failed to delete poll votes', does not go on to the deletion of    *)
(* the poll row, and the poll row remains in the store.                *)
(* ------------------------------------------------------------------ *)
(* the invocation that took this step began on it *)
StepFromIdle == \A r \in Reqs : pc[r] # "idle" => pc'[r] = pc[r]

C11_VotesDeleteFailureIsThrown ==
  [][(Actor.op = "deletePoll" /\ Actor.error = StoreFailure /\ StepFromIdle)
       => /\ returned'.resp = Thrown("Failed to delete poll votes")
          /\ \A r \in Reqs : pc'[r] = "deletePoll_poll" => pc[r] = "deletePoll_poll"
          /\ polls' = polls
          /\ votes' = votes]_vars

(* the owner's deletePoll was thrown back with the poll and its votes in place *)
C11_Witness ==
  /\ returned.ctx.op = "deletePoll"
  /\ returned.ctx.error = StoreFailure
  /\ returned.resp = Thrown("Failed to delete poll votes")
  /\ \E p \in polls : p.id = returned.ctx.pollId /\ p.created_by = returned.ctx.session
  /\ VotesOfPoll(votes, returned.ctx.pollId) # {}

(* ------------------------------------------------------------------ *)
(* C12: deletePoll called by a signed-in user for a poll created by    *)
(* another user fails with 'Failed to delete poll': it does not return *)
(* success, and the poll row remains.                                  *)
(* ------------------------------------------------------------------ *)
C12_NonOwnerDeletePollFails ==
  [][\A r \in Reqs : \A p \in polls :
       (/\ pc[r] = "deletePoll_poll"
        /\ pc'[r] = "idle"
        /\ p.id = ctx[r].pollId
        /\ p.created_by # ctx[r].session)
         => /\ returned'.resp = Thrown("Failed to delete poll")
            /\ ~returned'.resp.success
            /\ p \in polls']_vars

(* ------------------------------------------------------------------ *)
(* C13: a step of a vote submission that does not return success       *)
(* leaves the votes table as it was; the only row a vote submission    *)
(* ever adds or rewrites is the caller's row for the poll, holding the *)
(* submitted option, and the caller never has a second row.            *)
(* ------------------------------------------------------------------ *)
ErrorStatuses == {400, 401, 404, 500}

C13_ErrorLeavesVotesUnchanged ==
  [][Actor.op = "vote"
       => /\ returned'.resp.status \in ErrorStatuses => votes' = votes
          /\ ~returned'.resp.success => votes' = votes
          /\ \A v \in votes' \ votes :
               /\ v.poll_id = Actor.pollId
               /\ v.voted_by = Actor.session
               /\ v.option_index = Actor.optionIndex
          /\ Cardinality(votes') <= Cardinality(votes) + 1
          /\ Cardinality(VotesOfUser(votes', Actor.pollId, Actor.session)) <= 1]_vars

(* the update of a vote to another option failed: 500, the prior value stays *)
C13_Witness ==
  /\ returned.ctx.op = "vote"
  /\ returned.ctx.error = StoreFailure
  /\ returned.resp = JsonError("Failed to update vote", 500)
  /\ \E v \in votes :
       /\ v.id = returned.ctx.existingVote
       /\ v.option_index # returned.ctx.optionIndex

(* ------------------------------------------------------------------ *)
(* C14: a handler that is given a poll id sends no query to the store  *)
(* unless the id has the UUID shape: with a malformed id it returns    *)
(* a rejection on its first step, without having called the store.     *)
(* ------------------------------------------------------------------ *)
PollIdOps == {"vote", "stats", "get", "put", "delete", "deletePoll"}

(* responses a handler gives before its first store call *)
RejectedBeforeStore(response) ==
  \/ Unauthorized(response)
  \/ response.kind = "json" /\ response.status = 400

C14_MalformedIdNeverQueried ==
  [][(Actor.op \in PollIdOps /\ Actor.pollId # <<>> /\ ~isValidUUID(Actor.pollId))
       => /\ \A r \in Reqs : pc'[r] = "idle"
          /\ RejectedBeforeStore(returned'.resp)
          /\ returned'.ctx.error = ""
          /\ polls' = polls
          /\ votes' = votes]_vars

(* ------------------------------------------------------------------ *)
(* C15: vote submission and vote-stats read answer 400 'Invalid poll   *)
(* ID format' exactly for a malformed id and 404 'Poll not found'      *)
(* exactly for a well-formed id that no poll row has; a failure of the *)
(* store during the poll lookup is not answered as not found.          *)
(* ------------------------------------------------------------------ *)
C15_NotFoundOnlyWhenAbsent ==
  [][(Actor.op \in {"vote", "stats"} /\ returned'.ctx.op # "none")
       => /\ returned'.resp = JsonError("Invalid poll ID format", 400)
               => ~isValidUUID(Actor.pollId)
          /\ (Actor.session # NoSession /\ Actor.pollId # <<>> /\ ~isValidUUID(Actor.pollId))
               => returned'.resp = JsonError("Invalid poll ID format", 400)
          /\ returned'.resp = JsonError("Poll not found", 404)
               => /\ isValidUUID(Actor.pollId)
                  /\ PollsWithId(polls, Actor.pollId) = {}]_vars

(* ------------------------------------------------------------------ *)
(* Vocabulary of the statistics properties                             *)
(* ------------------------------------------------------------------ *)
(* the option list a value of polls.options denotes *)
OptionList(v) == IF v.type = "array" THEN v.value ELSE JSONparse(v.value)

(* the per-poll statistics objects the latest step returned *)
ReturnedStats ==
  {returned.resp.pollsWithStats[i] : i \in 1..Len(returned.resp.pollsWithStats)}

(* the vote rows whose option_index is an index of a list of n options *)
InRange(rows, n) == {v \in rows : 0 <= v.option_index /\ v.option_index < n}

(* the latest step returned the tallies of GET /api/polls/{id}/votes *)
ReturnedTallies == returned.ctx.op = "stats" /\ returned.resp.success

StatsOps == {"getUserPollsStats", "manage", "page", "stats"}

(* ------------------------------------------------------------------ *)
(* C16: for every poll whose totalVotes is 0, every option's           *)
(* percentage is 0 and mostVotedOption is absent: it is no index of    *)
(* the option list, in particular not index 0, and no option is shown  *)
(* as most voted.                                                      *)
(* ------------------------------------------------------------------ *)
C16_NoVotesNoMostVoted ==
  \A e \in ReturnedStats :
    e.totalVotes = 0
      => /\ e.mostVotedOption \notin 0..(Len(e.voteCounts) - 1)
         /\ \A k \in 1..Len(e.card) :
              e.card[k].percentage.num = 0 /\ ~e.card[k].isMostVoted

(* ------------------------------------------------------------------ *)
(* C17: for every option list and vote set, the statistics hold one    *)
(* count per option in option order, voteCounts[i] being the number of *)
(* vote rows with option_index = i, and totalVotes is the sum of the   *)
(* counts (the number of rows that were counted).                      *)
(* ------------------------------------------------------------------ *)
CountsOf(counts, totalVotes, list, rows) ==
  /\ Len(counts) = Len(list)
  /\ \A i \in 1..Len(list) :
       counts[i] = Cardinality({v \in rows : v.option_index = i - 1})
  /\ totalVotes = SumSeq(counts)
  /\ totalVotes = Cardinality(InRange(rows, Len(list)))

C17_CountsPerOption ==
  /\ \A e \in ReturnedStats :
       CountsOf(e.voteCounts, e.totalVotes, OptionList(e.options), VotesOfPoll(votes, e.id))
  /\ ReturnedTallies
       => CountsOf(returned.resp.voteCounts, returned.resp.totalVotes,
                   OptionsOf(polls, returned.ctx.pollId),
                   VotesOfPoll(votes, returned.ctx.pollId))

(* getUserPollsStats counted Option A twice, Option B once and Option C never *)
C17_Witness ==
  /\ returned.ctx.op = "getUserPollsStats"
  /\ \E e \in ReturnedStats :
       /\ e.options = JSArray(OptionABC)
       /\ e.voteCounts = <<2, 1, 0>>
       /\ e.totalVotes = 3

(* ------------------------------------------------------------------ *)
(* C18: vote rows whose option_index lies outside [0, N) for the N     *)
(* options of the poll are ignored: the statistics are those of the    *)
(* rows inside the range, and a read that met no store failure and no  *)
(* options value of another type returns them.                         *)
(* ------------------------------------------------------------------ *)
IgnoresOutOfRange(counts, totalVotes, list, rows) ==
  /\ Len(counts) = Len(list)
  /\ \A i \in 1..Len(list) :
       counts[i] = Cardinality({v \in InRange(rows, Len(list)) : v.option_index = i - 1})
  /\ totalVotes = Cardinality(InRange(rows, Len(list)))
  /\ \A i \in 1..Len(counts) : counts[i] <= Cardinality(InRange(rows, Len(list)))

C18_OutOfRangeVotesIgnored ==
  /\ \A e \in ReturnedStats :
       IgnoresOutOfRange(e.voteCounts, e.totalVotes, OptionList(e.options),
                         VotesOfPoll(votes, e.id))
  /\ ReturnedTallies
       => IgnoresOutOfRange(returned.resp.voteCounts, returned.resp.totalVotes,
                            OptionsOf(polls, returned.ctx.pollId),
                            VotesOfPoll(votes, returned.ctx.pollId))
  /\ (/\ returned.ctx.op \in StatsOps
      /\ returned.ctx.error = ""
      /\ \E p \in polls : p.created_by = returned.ctx.session)
       => \/ ReturnedStats # {}
          \/ ReturnedTallies

(* the tallies of a two-option poll that has a row for index 2 and one for index 3 *)
C18_Witness ==
  /\ ReturnedTallies
  /\ Len(returned.resp.voteCounts) = 2
  /\ returned.resp.totalVotes = 2
  /\ \E v \in VotesOfPoll(votes, returned.ctx.pollId) : v.option_index = 2
  /\ \E v \in VotesOfPoll(votes, returned.ctx.pollId) : v.option_index = 3

(* ------------------------------------------------------------------ *)
(* C19: for every poll with at least one counted vote, mostVotedOption *)
(* is the smallest index at which voteCounts holds its maximum; the    *)
(* counts <<2, 2, 1>> give 0.                                          *)
(* ------------------------------------------------------------------ *)
C19_MostVotedIsFirstMaximum ==
  \A e \in ReturnedStats :
    e.totalVotes >= 1
      => LET m == e.mostVotedOption IN
         /\ m \in 0..(Len(e.voteCounts) - 1)
         /\ \A j \in 1..Len(e.voteCounts) : e.voteCounts[j] <= e.voteCounts[m + 1]
         /\ \A j \in 1..m : e.voteCounts[j] < e.voteCounts[m + 1]

(* a tie of two options ahead of a third *)
C19_Witness ==
  \E e \in ReturnedStats : e.voteCounts = <<2, 2, 1>> /\ e.mostVotedOption = 0

(* ------------------------------------------------------------------ *)
(* C20: for every poll with at least one option, in each place the     *)
(* statistics are computed, mostVotedCount is the count at             *)
(* mostVotedOption and the maximum count, and mostVotedOptionText is   *)
(* the text of the option at index mostVotedOption.                    *)
(* ------------------------------------------------------------------ *)
C20_MostVotedCountAndText ==
  \A e \in ReturnedStats :
    Len(OptionList(e.options)) >= 1
      => LET m == e.mostVotedOption IN
         /\ m \in 0..(Len(e.voteCounts) - 1)
         /\ e.mostVotedCount = e.voteCounts[m + 1]
         /\ \A j \in 1..Len(e.voteCounts) : e.voteCounts[j] <= e.mostVotedCount
         /\ e.mostVotedOptionText = OptionList(e.options)[m + 1]

(* ------------------------------------------------------------------ *)
(* C21: wherever percentages are shown (the lines of PollResults for   *)
(* the tallies of GET /api/polls/{id}/votes, the page /polls/{id}, the *)
(* cards of the manage page), the percentage p of an option with count *)
(* c satisfies p * totalVotes = c * 100 when totalVotes > 0 and is 0   *)
(* when totalVotes = 0; its divisor is never 0, and it is the vote     *)
(* total, not the number of options.                                   *)
(* ------------------------------------------------------------------ *)
PercentageOf(p, voteCount, totalVotes) ==
  /\ p.den # 0
  /\ IF totalVotes > 0 THEN p.num * totalVotes = voteCount * 100 * p.den
     ELSE p.num = 0

PercentagesOf(lines, counts, totalVotes) ==
  \A k \in 1..Len(lines) :
    /\ lines[k].voteCount = (IF k <= Len(counts) THEN counts[k] ELSE 0)
    /\ PercentageOf(lines[k].percentage, lines[k].voteCount, totalVotes)

ValidQuestion(question) == Len(Trim(question)) \in 5..200

ValidOptions(list) ==
  /\ Len(list) \in 2..10
  /\ \A i \in 1..Len(list) : Len(list[i]) \in 1..100
  /\ \A i, j \in 1..Len(list) : i # j => toLowerCase(list[i]) # toLowerCase(list[j])

ValidPoll(question, optionsString) ==
  ValidQuestion(question) /\ ValidOptions(splitOptions(optionsString))

InsertsOnePoll == polls \subseteq polls' /\ Cardinality(polls' \ polls) = 1

(* the step is a POST /api/polls of a signed-in user *)
CreateStep == returned'.ctx.op = "create" /\ returned'.ctx.session # NoSession

C22_InsertsIffValid ==
  [][CreateStep
       => /\ InsertsOnePoll
               <=> ValidPoll(returned'.ctx.question, returned'.ctx.optionsString)
          /\ returned'.resp.status = 400 => polls' = polls]_vars

(* C22 as amended: the row is inserted if and only if the request is   *)
(* valid and the store performs the insert.                            *)
C22_InsertsIffValidAndStored ==
  [][CreateStep
       => /\ InsertsOnePoll
               <=> /\ ValidPoll(returned'.ctx.question, returned'.ctx.optionsString)
                   /\ returned'.ctx.error = ""
          /\ ~InsertsOnePoll => polls' = polls
          /\ returned'.resp.status = 400 => polls' = polls]_vars

(* a poll of ten options was created *)
C22_Witness ==
  /\ returned.ctx.op = "create"
  /\ returned.resp.success
  /\ returned.ctx.optionsString = TenOptions
  /\ returned.resp.poll \in polls

(* ------------------------------------------------------------------ *)
(* C23: a rejected poll creation returns a single error, that of the   *)
(* first violated rule in the order: question length, option count     *)
(* (fewer than 2 or more than 10), option length, case-insensitive     *)
(* duplicate.                                                          *)
(* ------------------------------------------------------------------ *)
FirstViolatedRule(question, optionsString) ==
  LET list == splitOptions(optionsString) IN
  IF ~ValidQuestion(question) THEN "Question must be between 5 and 200 characters"
  ELSE IF Len(list) < 2 THEN "Please provide at least 2 options"
  ELSE IF Len(list) > 10 THEN "Maximum 10 options allowed"
  ELSE IF \E i \in 1..Len(list) : Len(list[i]) \notin 1..100
    THEN "Each option must be between 1 and 100 characters"
  ELSE "All options must be unique"

C23_FirstViolatedRuleReported ==
  (returned.ctx.op = "create" /\ returned.resp.status = 400)
    => returned.resp.error
         = FirstViolatedRule(returned.ctx.question, returned.ctx.optionsString)

(* ------------------------------------------------------------------ *)
(* C24: after any sequence of poll creations and poll edits, every     *)
(* stored poll has a question whose trimmed length is between 5 and    *)
(* 200 and an option list of 2 to 10 options, each 1 to 100 characters *)
(* and pairwise distinct ignoring case.                                *)
(* ------------------------------------------------------------------ *)
C24_StoredPollsAreValid ==
  \A p \in polls : ValidQuestion(p.question) /\ ValidOptions(OptionList(p.options))

(* ------------------------------------------------------------------ *)
(* C25: getUserPollsStats, called by a signed-in user and meeting no   *)
(* store failure, returns exactly the polls whose created_by is the    *)
(* caller, newest first, each with the statistics of the votes of that *)
(* poll only; polls created by other users never appear.               *)
(* ------------------------------------------------------------------ *)
C25_ReturnsCallersPolls ==
  (/\ returned.ctx.op = "getUserPollsStats"
   /\ returned.ctx.session # NoSession
   /\ returned.ctx.error # StoreFailure)
    => LET out == returned.resp.pollsWithStats
           own == {p \in polls : p.created_by = returned.ctx.session} IN
       /\ returned.resp.kind = "return"
       /\ Len(out) = Cardinality(own)
       /\ {out[i].id : i \in 1..Len(out)} = {p.id : p \in own}
       /\ \A i, j \in 1..Len(out) : i < j => out[i].created_at > out[j].created_at
       /\ \A i \in 1..Len(out) :
            CountsOf(out[i].voteCounts, out[i].totalVotes, OptionList(out[i].options),
                     VotesOfPoll(votes, out[i].id))

(* ------------------------------------------------------------------ *)
(* C26: the middleware redirects every request for a /polls path made  *)
(* by an unauthenticated user to /auth/login, redirects a request for  *)
(* /auth/login made with a valid session to /polls, and lets API and   *)
(* static-asset paths through without any authentication check.        *)
(* ------------------------------------------------------------------ *)
ApiOrStaticPath(pathname) ==
  \/ startsWith(pathname, ApiDir)
  \/ startsWith(pathname, NextDir)
  \/ pathname = FaviconFile

C26_MiddlewareRedirects ==
  returned.ctx.op = "middleware"
    => /\ (startsWith(returned.ctx.pathname, PollsPath) /\ returned.ctx.session = NoSession)
            => returned.resp = NextResponseRedirect(LoginPath)
       /\ (/\ returned.ctx.pathname = LoginPath
           /\ returned.ctx.hasCookie
           /\ returned.ctx.session # NoSession
           /\ returned.ctx.error = "")
            => returned.resp = NextResponseRedirect(PollsPath)
       /\ ApiOrStaticPath(returned.ctx.pathname)
            => returned.resp = NextResponseNext /\ ~returned.ctx.sessionChecked

(* ------------------------------------------------------------------ *)
(* C27: in every reachable state every vote row refers to an existing  *)
(* poll, however a vote submission interleaves with the deletion of    *)
(* the same poll (votes deleted, then poll deleted).                   *)
(* ------------------------------------------------------------------ *)
C27_NoOrphanVotes == \A v \in votes : \E p \in polls : p.id = v.poll_id

(* a vote submission admitted while its poll existed reached its insert *)
(* after the poll was deleted, and the store refused the row            *)
C27_Witness ==
  /\ returned.ctx.op = "vote"
  /\ returned.ctx.error = ForeignKeyViolation
  /\ PollsWithId(polls, returned.ctx.pollId) = {}

(* ------------------------------------------------------------------ *)
(* C28: a vote submission inserts a new vote row only when its lookup  *)
(* established that no row exists for (poll, user): if the lookup of   *)
(* the existing vote fails with a store error, the handler neither     *)
(* inserts a row nor reports created.                                  *)
(* ------------------------------------------------------------------ *)
C28_FailedLookupInsertsNothing ==
  [][(pc[SeqReq] = "vote_write" /\ ctx[SeqReq].voteError = StoreFailure)
       => votes' \subseteq votes /\ ~returned'.resp.created]_vars

(* a delete of poll pollId has removed the votes and not yet the poll *)
DeleteInProgress(pollId) ==
  \E d \in Reqs : pc[d] \in {"delete_poll", "deletePoll_poll"} /\ ctx[d].pollId = pollId

(* ------------------------------------------------------------------ *)
(* C29: a vote-stats read running concurrently with the owner's delete *)
(* of the same poll returns either the tallies of the full pre-delete  *)
(* vote set or not-found: a read that answers with tallies while the   *)
(* delete is between its two store calls answers with the tallies of   *)
(* the votes the poll had, never with zero tallies.                    *)
(* ------------------------------------------------------------------ *)
C29_StatsBesideDelete ==
  [][(returned'.ctx.op = "stats" /\ returned'.resp.success
        /\ DeleteInProgress(returned'.ctx.pollId))
       => returned'.resp.voteCounts
            = voteCounts(JSONparseValue(RacePoll.options).data, RaceVotes)]_vars

(* 1 at position i + 1, 0 elsewhere *)
OneAt(i, n) == [k \in 1..n |-> IF k = i + 1 THEN 1 ELSE 0]

(* this step ends a submission of user u for option j of poll p, who has *)
(* the vote row old on it; no store call of the submission failed        *)
RevoteEnds(p, u, j, old) ==
  /\ pc[SeqReq] # "idle" \/ returned'.ctx.op = "pollVote"
  /\ pc'[SeqReq] = "idle"
  /\ returned'.ctx.op \in {"vote", "pollVote"}
  /\ returned'.ctx.pollId = p.id /\ returned'.ctx.session = u
  /\ returned'.ctx.optionIndex = j
  /\ j \in 0..(Len(OptionList(p.options)) - 1)
  /\ old \in VotesOfUser(votes, p.id, u)
  /\ returned'.ctx.error # StoreFailure /\ ctx[SeqReq].voteError # StoreFailure

====
